---- MODULE Spec2Model ----
(***************************************************************************)
(* ESP32 SD-card counter logger: the retry executor of src/src/lib.rs and  *)
(* the bring-up pipeline and counting loop of src/src/bin/main.rs, as one  *)
(* sequential state machine.  Every await point and every fallible call of *)
(* main is one step; the environment chooses whether each call succeeds.   *)
(***************************************************************************)
EXTENDS Integers, Sequences, FiniteSets, TLC

\* ---------------------------------------------------------------- constants

\* lib.rs: pub const MAX_RETRIES: u8 = 4
MAX_RETRIES == 4

\* main.rs: if counter % 10 == 0
FLUSH_PERIOD == 10

\* Width of the loop counter.  The source declares u32; the model keeps the
\* wrap-around of a fixed-width unsigned integer at a width TLC can exhaust.
CounterBits == 4

\* The ghost iteration number stops counting here (it only records history).
IterCap == 12

\* The ghost totals of record writes and flushes stop counting here.
CountCap == 2

CounterModulus == 2 ^ CounterBits

\* The five bring-up stages, in source order:
\*   1 sdcard.num_bytes()   2 open_volume   3 open_root_dir
\*   4 open_file_in_dir     5 f.write(header)
Stages == 1 .. 5

\* Option<T>
None == <<"none">>
Some(v) == <<"some", v>>
\* a let-binding that has not been executed yet
Unset == <<"unset">>
IsSome(o) == o[1] = "some"

\* The value the stage's operation yields on a given attempt: the model names
\* a value by the attempt that produced it.
OpValue(s, a) == <<s, a>>

Inc(n, cap) == IF n < cap THEN n + 1 ELSE n

VARIABLES
    pc,              \* position of main
    stage,           \* stage whose retry_with_backoff call is running / gated
    attempt,         \* `attempt` of the for loop of retry_with_backoff
    res,             \* sd_size, volume0, root_dir, file, header_written
    counter,         \* `counter` of the main loop
    overflow_checks, \* build profile: does `counter += 1` panic on overflow
    halt,            \* why the panic handler was entered ("none" if it was not)
    ret,             \* ghost: what retry_with_backoff returned for each stage
    ops,             \* ghost: invocations of each stage's operation
    fails,           \* ghost: invocations of it that returned Err
    succ,            \* ghost: the attempt on which it first returned Ok (0: none)
    delays,          \* ghost: 500 ms delays taken by each stage's executor
    diag,            \* ghost: diagnostics printed by retry_with_backoff
    reconfigs,       \* ghost: calls of apply_config
    iter,            \* ghost: loop iterations started (stops at IterCap)
    writes,          \* ghost: record writes issued (stops at CountCap)
    flushes,         \* ghost: flushes issued (stops at CountCap)
    wres,            \* ghost: this iteration's record write: none / ok / err
    fres,            \* ghost: this iteration's flush: none / ok / err
    borrows,         \* live borrows of shared_spi_bus between two steps
    fmt_pc,          \* format_csv_line: idle / call / done
    buffer,          \* format_csv_line: `buffer`
    fill,            \* format_csv_line: the byte the buffer held before
    timestamp,       \* format_csv_line: `timestamp` and its decimal text
    fmt_counter,     \* format_csv_line: `counter` and its decimal text
    line_length      \* format_csv_line: the value returned

vars == <<pc, stage, attempt, res, counter, overflow_checks, halt, ret, ops,
          fails, succ, delays, diag, reconfigs, iter, writes, flushes, wres,
          fres, borrows, fmt_pc, buffer, fill, timestamp, fmt_counter,
          line_length>>

mainVars == <<pc, stage, attempt, res, counter, overflow_checks, halt, ret,
              ops, fails, succ, delays, diag, reconfigs, iter, writes,
              flushes, wres, fres, borrows>>
fmtVars == <<fmt_pc, buffer, fill, timestamp, fmt_counter, line_length>>

loopGhost == <<iter, writes, flushes, wres, fres>>
retryGhost == <<ops, fails, succ, delays, diag>>

sd_size == res[1]
volume0 == res[2]
root_dir == res[3]
file == res[4]
header_written == res[5]

\* ------------------------------------------------------------------- Init

\* main up to line 70: peripherals taken, filename generated, pins chosen.
MainInit ==
    /\ pc = "spi_new"
    /\ stage = 0
    /\ attempt = 0
    /\ res = [s \in Stages |-> Unset]
    /\ counter = 0
    /\ overflow_checks \in BOOLEAN
    /\ halt = "none"
    /\ ret = [s \in Stages |-> Unset]
    /\ ops = [s \in Stages |-> 0]
    /\ fails = [s \in Stages |-> 0]
    /\ succ = [s \in Stages |-> 0]
    /\ delays = [s \in Stages |-> 0]
    /\ diag = <<>>
    /\ reconfigs = 0
    /\ iter = 0
    /\ writes = 0
    /\ flushes = 0
    /\ wres = "none"
    /\ fres = "none"
    /\ borrows = 0

\* No call of format_csv_line is under way.
FmtIdle ==
    /\ fmt_pc = "idle"
    /\ buffer = <<>>
    /\ fill = 0
    /\ timestamp = [limbs |-> <<0, 0, 0>>, text |-> <<0>>]
    /\ fmt_counter = [limbs |-> <<0, 0>>, text |-> <<0>>]
    /\ line_length = 0

Init == MainInit /\ FmtIdle

\* #[panic_handler] fn panic: loop {}
Panic(why) ==
    /\ pc' = "panicked"
    /\ halt' = why

\* ------------------------------------------------------------ bus set-up

\* Variant: one attempt counter is shared by all invocations of the executor.
FirstAttempt_Shared == ops[1] + ops[2] + ops[3] + ops[4] + ops[5] + 1

\* for attempt in 1..=MAX_RETRIES: the first value of the range
FirstAttempt == 1


\* SpiMaster::new(spi2, cfg).expect("Failed to initialize SPI bus")
SpiNew(ok) ==
    /\ UNCHANGED <<borrows, fmtVars>>
    /\ pc = "spi_new"
    /\ IF ok THEN pc' = "dev_new" /\ halt' = halt
             ELSE Panic("spi_new")
    /\ UNCHANGED <<stage, attempt, res, counter, overflow_checks, ret,
                   retryGhost, reconfigs, loopGhost>>

\* RefCellDevice::new(..).expect("Failed to create SPI device"), SdCard::new,
\* then the first retry_with_backoff call (stage 1 is not gated).
DevNew(ok) ==
    /\ UNCHANGED <<borrows, fmtVars>>
    /\ pc = "dev_new"
    /\ IF ok THEN /\ pc' = "attempt"
                  /\ stage' = 1
                  /\ attempt' = FirstAttempt
                  /\ halt' = halt
             ELSE /\ Panic("dev_new")
                  /\ UNCHANGED <<stage, attempt>>
    /\ UNCHANGED <<res, counter, overflow_checks, ret, retryGhost, reconfigs,
                   loopGhost>>

\* ---------------------------------------------------------- shared bus

\* Variant: an operation that fails leaves its borrow of the bus alive.
BorrowsAfterOp_LeakOnError(b, ok) == IF ok THEN b ELSE b + 1

\* A device operation (sdcard.num_bytes(), open_volume, .., file.write,
\* file.flush) is a synchronous call: the closures handed to the executor
\* hold no await, so whatever borrow of shared_spi_bus the SPI device takes
\* for a transfer is taken and dropped inside the call.
BorrowsAfterOp(b, ok) == b + 1 - 1

\* ------------------------------------------------------ retry_with_backoff

\* Variant: the final-attempt test is off by one (`>` for `>=`), so the last
\* failure is followed by a delay before the executor gives up.
IsFinalAttempt_OffByOne(a) == a > MAX_RETRIES

\* if attempt >= MAX_RETRIES
IsFinalAttempt(a) == a >= MAX_RETRIES

\* for attempt in 1..=MAX_RETRIES
InRange(a) == a <= MAX_RETRIES

\* Where main continues once the executor of stage s has returned.
AfterStage(s) ==
    CASE s = 1 -> "gate"
      [] s = 2 -> "gate"
      [] s = 3 -> "reconfig"
      [] s = 4 -> "gate"
      [] s = 5 -> "loop_top"

\* Variant: a failed header write does not reset `file`.
Bind_KeepFile(s, r) == [res EXCEPT ![s] = r]

\* What main binds when the executor of stage s returns r.  Stages 1..4 bind
\* their own variable; stage 5 binds header_written and, when it is None,
\* assigns file = None.
Bind(s, r) ==
    IF s = 5
    THEN [res EXCEPT ![5] = r, ![4] = IF IsSome(r) THEN @ ELSE None]
    ELSE [res EXCEPT ![s] = r]

\* retry_with_backoff returns r to main.
Return(r) ==
    /\ ret' = [ret EXCEPT ![stage] = r]
    /\ res' = Bind(stage, r)
    /\ pc' = AfterStage(stage)
    /\ stage' = IF stage < 5 /\ stage # 3 THEN stage + 1 ELSE stage
    /\ attempt' = 0

\* Variant: an Ok before the final attempt does not short-circuit the loop.
Outcome_NoShortCircuit(ok, a) ==
    IF ok /\ a >= MAX_RETRIES THEN "some"
    ELSE IF a >= MAX_RETRIES THEN "none"
    ELSE "delay"

\* Variant: an Err never ends the executor; only the range does.
Outcome_NeverGivesUp(ok, a) == IF ok THEN "some" ELSE "delay"

\* match operation().await: Ok returns Some at once; Err on the final attempt
\* returns None; any other Err goes on to the delay.
Outcome(ok, a) ==
    IF ok THEN "some"
    ELSE IF IsFinalAttempt(a) THEN "none"
    ELSE "delay"

\* Variant: the attempt index is printed from 0.
Diagnostics_ZeroBased(s, a) ==
    IF a >= MAX_RETRIES
    THEN <<(<<s, "retry", a - 1, MAX_RETRIES>>),
           (<<s, "failed_after", MAX_RETRIES>>)>>
    ELSE <<(<<s, "retry", a - 1, MAX_RETRIES>>)>>

\* The println! calls of the Err arm for attempt a: "<name> failed: <e> -
\* Retry a/MAX_RETRIES" and, on the final attempt, "<name> failed after
\* MAX_RETRIES retries".
Diagnostics(s, a) ==
    IF IsFinalAttempt(a)
    THEN <<(<<s, "retry", a, MAX_RETRIES>>),
           (<<s, "failed_after", MAX_RETRIES>>)>>
    ELSE <<(<<s, "retry", a, MAX_RETRIES>>)>>

\* One pass of the loop body: operation().await and the match on its result.
Attempt(ok) ==
    /\ borrows' = BorrowsAfterOp(borrows, ok)
    /\ UNCHANGED fmtVars
    /\ pc = "attempt"
    /\ ops' = [ops EXCEPT ![stage] = @ + 1]
    /\ fails' = IF ok THEN fails ELSE [fails EXCEPT ![stage] = @ + 1]
    /\ succ' = IF ok /\ succ[stage] = 0 THEN [succ EXCEPT ![stage] = attempt]
                                       ELSE succ
    /\ diag' = IF ok THEN diag ELSE diag \o Diagnostics(stage, attempt)
    /\ CASE Outcome(ok, attempt) = "some" ->
                Return(Some(OpValue(stage, attempt)))
         [] Outcome(ok, attempt) = "none" ->
                Return(None)
         [] Outcome(ok, attempt) = "delay" ->
                /\ pc' = "delay"
                /\ UNCHANGED <<stage, attempt, res, ret>>
    /\ UNCHANGED <<counter, overflow_checks, halt, delays, reconfigs, loopGhost>>

\* Timer::after(Duration::from_millis(500)).await, then the next pass of the
\* for loop, or the trailing None when the range is exhausted.
BackoffDelay ==
    /\ UNCHANGED <<borrows, fmtVars>>
    /\ pc = "delay"
    /\ delays' = [delays EXCEPT ![stage] = @ + 1]
    /\ IF InRange(attempt + 1)
       THEN /\ attempt' = attempt + 1
            /\ pc' = "attempt"
            /\ UNCHANGED <<stage, res, ret>>
       ELSE Return(None)
    /\ UNCHANGED <<counter, overflow_checks, halt, ops, fails, succ, diag,
                   reconfigs, loopGhost>>

\* ------------------------------------------------------------ main: gates

\* Variant: the gates do not test the previous stage's result.
GateOpen_Always(s) == TRUE

\* `if sd_size.is_some()`, `if let Some(ref volume) = volume0`,
\* `if let Some(ref root_dir) = root_dir`, `if let Some(ref mut f) = file`
GateOpen(s) == IsSome(res[s - 1])

\* The gate in front of stage s (2..5): call the executor, or take the else
\* branch (None for stages 2..4, nothing for the header).
Gate ==
    /\ UNCHANGED <<borrows, fmtVars>>
    /\ pc = "gate"
    /\ IF GateOpen(stage)
       THEN /\ pc' = "attempt"
            /\ attempt' = FirstAttempt
            /\ UNCHANGED <<stage, res>>
       ELSE /\ res' = IF stage = 5 THEN res ELSE [res EXCEPT ![stage] = None]
            /\ pc' = AfterStage(stage)
            /\ stage' = IF stage < 5 /\ stage # 3 THEN stage + 1 ELSE stage
            /\ UNCHANGED <<attempt>>
    /\ UNCHANGED <<counter, overflow_checks, halt, ret, retryGhost, reconfigs,
                   loopGhost>>

\* Variant: a failed apply_config is tried again instead of being fatal.
Reconfig_Retried(ok) ==
    /\ UNCHANGED <<borrows, fmtVars>>
    /\ pc = "reconfig"
    /\ reconfigs' = reconfigs + 1
    /\ pc' = IF ok THEN "gate" ELSE "reconfig"
    /\ stage' = IF ok THEN 4 ELSE stage
    /\ UNCHANGED <<halt, attempt, res, counter, overflow_checks, ret,
                   retryGhost, loopGhost>>

\* shared_spi_bus.borrow_mut().apply_config(..).expect(..)
Reconfig(ok) ==
    /\ UNCHANGED <<borrows, fmtVars>>
    /\ pc = "reconfig"
    /\ IF borrows # 0
       THEN /\ Panic("already_borrowed")
            /\ UNCHANGED <<stage, reconfigs>>
       ELSE /\ reconfigs' = reconfigs + 1
            /\ IF ok THEN /\ pc' = "gate"
                          /\ stage' = 4
                          /\ halt' = halt
                     ELSE /\ Panic("apply_config")
                          /\ UNCHANGED <<stage>>
    /\ UNCHANGED <<attempt, res, counter, overflow_checks, ret, retryGhost,
                   loopGhost>>

\* ------------------------------------------------------------- main: loop

\* counter += 1 on a u32: wraps, or panics in a build with overflow checks.
Overflows(c) == c + 1 >= CounterModulus
Increment(c) == (c + 1) % CounterModulus

\* Variant: the loop tests the result of the file open, not `file`.
FilePresent_OpenResult == IsSome(ret[4])

\* Variant: the loop writes without testing `file`.
FilePresent_Unchecked == TRUE

\* if let Some(ref mut file) = file
FilePresent == IsSome(file)

\* Variant: the trigger counts iterations from 0 (fires at 9, 19, ...).
DurabilityTrigger_ZeroBased(c) == (c + 1) % FLUSH_PERIOD = 0

\* if counter % 10 == 0
DurabilityTrigger(c) == c % FLUSH_PERIOD = 0

\* Variant: the flush is placed after the match, not inside its Ok arm.
FlushDue_AfterMatch(ok, c) == c % FLUSH_PERIOD = 0

\* Whether the flush is reached after the record write of this iteration.
FlushDue(ok, c) == ok /\ DurabilityTrigger(c)

\* loop { counter += 1; timestamp; println; if let Some(file) ...
LoopTop ==
    /\ UNCHANGED <<borrows, fmtVars>>
    /\ pc = "loop_top"
    /\ IF Overflows(counter) /\ overflow_checks
       THEN /\ Panic("overflow")
            /\ UNCHANGED <<counter, loopGhost>>
       ELSE /\ counter' = Increment(counter)
            /\ iter' = Inc(iter, IterCap)
            /\ pc' = IF FilePresent THEN "loop_write" ELSE "loop_sleep"
            /\ UNCHANGED <<halt, writes, flushes, wres, fres>>
    /\ UNCHANGED <<stage, attempt, res, overflow_checks, ret, retryGhost,
                   reconfigs>>

\* Variant: the Err arm drops the file handle.
FileAfterWrite_DropOnError(ok) == IF ok THEN res ELSE [res EXCEPT ![4] = None]

\* Neither arm of the match on file.write assigns `file`.
FileAfterWrite(ok) == res

\* Variant: a failed record write is tried again within the iteration.
WriteRecord_RetryOnError(ok) ==
    /\ borrows' = BorrowsAfterOp(borrows, ok)
    /\ UNCHANGED fmtVars
    /\ pc = "loop_write"
    /\ writes' = Inc(writes, CountCap)
    /\ wres' = IF ok THEN "ok" ELSE "err"
    /\ pc' = IF ok /\ counter % FLUSH_PERIOD = 0 THEN "loop_flush"
           ELSE IF ok THEN "loop_sleep"
           ELSE "loop_write"
    /\ UNCHANGED <<stage, attempt, res, counter, overflow_checks, halt, ret,
                   retryGhost, reconfigs, iter, flushes, fres>>

\* format_csv_line, then match file.write(&buffer[..line_length])
WriteRecord(ok) ==
    /\ borrows' = BorrowsAfterOp(borrows, ok)
    /\ UNCHANGED fmtVars
    /\ pc = "loop_write"
    /\ res' = FileAfterWrite(ok)
    /\ writes' = Inc(writes, CountCap)
    /\ wres' = IF ok THEN "ok" ELSE "err"
    /\ pc' = IF FlushDue(ok, counter) THEN "loop_flush" ELSE "loop_sleep"
    /\ UNCHANGED <<stage, attempt, counter, overflow_checks, halt, ret,
                   retryGhost, reconfigs, iter, flushes, fres>>

\* let _ = file.flush(); println
Flush(ok) ==
    /\ borrows' = BorrowsAfterOp(borrows, ok)
    /\ UNCHANGED fmtVars
    /\ pc = "loop_flush"
    /\ flushes' = Inc(flushes, CountCap)
    /\ fres' = IF ok THEN "ok" ELSE "err"
    /\ pc' = "loop_sleep"
    /\ UNCHANGED <<stage, attempt, res, counter, overflow_checks, halt, ret,
                   retryGhost, reconfigs, iter, writes, wres>>

\* Timer::after(Duration::from_secs(1)).await
Sleep ==
    /\ UNCHANGED <<borrows, fmtVars>>
    /\ pc = "loop_sleep"
    /\ pc' = "loop_top"
    /\ wres' = "none"
    /\ fres' = "none"
    /\ UNCHANGED <<stage, attempt, res, counter, overflow_checks, halt, ret,
                   retryGhost, reconfigs, iter, writes, flushes>>

\* -------------------------------------------------------- format_csv_line

\* main.rs: let mut buffer = [0u8; 64]
LINE_BUFFER_LEN == 64

\* Buffers of every length up to this one are tried, besides the loop's.
MaxSmallBuf == 15

\* Bytes are numbers: '0' is 48, ',' 44, '\n' 10.
Ascii0 == 48

\* b",count,"
COUNT_SEP == <<44, 99, 111, 117, 110, 116, 44>>

\* b"\n"
NEWLINE == <<10>>

\* Integers wider than TLC's are held as limbs in base 10^9 (nine decimal
\* digits each), most significant first: a u64 has three limbs, a u32 two.
LimbDigits == 9

RECURSIVE DigitsOf(_)
\* the decimal digits of n, without leading zeros
DigitsOf(n) ==
    IF n < 10 THEN <<Ascii0 + n>>
    ELSE Append(DigitsOf(n \div 10), Ascii0 + (n % 10))

RECURSIVE Padded(_, _)
\* the last w decimal digits of n, zeros included
Padded(n, w) ==
    IF w = 0 THEN <<>>
    ELSE Append(Padded(n \div 10, w - 1), Ascii0 + (n % 10))

RECURSIVE PaddedAll(_)
PaddedAll(limbs) ==
    IF limbs = <<>> THEN <<>>
    ELSE Padded(Head(limbs), LimbDigits) \o PaddedAll(Tail(limbs))

RECURSIVE Decimal(_)
\* itoa::Buffer::format: the decimal text of an unsigned integer
Decimal(limbs) ==
    IF Len(limbs) = 1 THEN DigitsOf(limbs[1])
    ELSE IF Head(limbs) = 0 THEN Decimal(Tail(limbs))
    ELSE DigitsOf(Head(limbs)) \o PaddedAll(Tail(limbs))

\* let parts = [timestamp_str, b",count,", counter_str, b"\n"]
Parts(ts, c) == <<Decimal(ts), COUNT_SEP, Decimal(c), NEWLINE>>

\* Variant: the bound test admits cursor == buffer.len().
HasRoom_OffByOne(cursor, buf) == cursor <= Len(buf)

\* if cursor < buffer.len()
HasRoom(cursor, buf) == cursor < Len(buf)

RECURSIVE WriteBytes(_, _, _)
\* for &byte in *part { if room { buffer[cursor] = byte; cursor += 1 }
\*                      else { break } }      (cursor counts from 0)
WriteBytes(st, part, i) ==
    IF i > Len(part) THEN st
    ELSE IF HasRoom(st.cursor, st.buf)
    THEN WriteBytes([buf |-> [j \in 1 .. Len(st.buf) |->
                                 IF j = st.cursor + 1 THEN part[i]
                                                      ELSE st.buf[j]],
                     cursor |-> st.cursor + 1], part, i + 1)
    ELSE st

RECURSIVE WriteParts(_, _, _)
\* for part in &parts { .. }: the break leaves the inner loop only
WriteParts(st, parts, k) ==
    IF k > Len(parts) THEN st
    ELSE WriteParts(WriteBytes(st, parts[k], 1), parts, k + 1)

\* pub fn format_csv_line(buffer, timestamp, counter) -> usize
format_csv_line(buf, ts, c) ==
    WriteParts([buf |-> buf, cursor |-> 0], Parts(ts, c), 1)

\* Sample u64 timestamps, each with its decimal text written out by hand
\* (as digits): 0, 7, 1000, 10^9, 1234567890123 and u64::MAX.
TimestampSamples ==
    { [limbs |-> <<0, 0, 0>>, text |-> <<0>>],
      [limbs |-> <<0, 0, 7>>, text |-> <<7>>],
      [limbs |-> <<0, 0, 1000>>, text |-> <<1, 0, 0, 0>>],
      [limbs |-> <<0, 1, 0>>, text |-> <<1, 0, 0, 0, 0, 0, 0, 0, 0, 0>>],
      [limbs |-> <<0, 1234, 567890123>>,
       text |-> <<1, 2, 3, 4, 5, 6, 7, 8, 9, 0, 1, 2, 3>>],
      [limbs |-> <<18, 446744073, 709551615>>,
       text |-> <<1, 8, 4, 4, 6, 7, 4, 4, 0, 7, 3, 7, 0, 9, 5, 5, 1, 6, 1,
                  5>>] }

\* Sample u32 counters: 1, 42, 10, 3000000005 and u32::MAX.
CounterSamples ==
    { [limbs |-> <<0, 1>>, text |-> <<1>>],
      [limbs |-> <<0, 42>>, text |-> <<4, 2>>],
      [limbs |-> <<0, 10>>, text |-> <<1, 0>>],
      [limbs |-> <<3, 5>>, text |-> <<3, 0, 0, 0, 0, 0, 0, 0, 0, 5>>],
      [limbs |-> <<4, 294967295>>,
       text |-> <<4, 2, 9, 4, 9, 6, 7, 2, 9, 5>>] }

BufferLens == (0 .. MaxSmallBuf) \cup {LINE_BUFFER_LEN}

\* A caller is about to call format_csv_line on a buffer of some length.
FormatInit ==
    /\ MainInit
    /\ fmt_pc = "call"
    /\ fill \in {0, 255}
    /\ \E n \in BufferLens : buffer = [j \in 1 .. n |-> fill]
    /\ timestamp \in TimestampSamples
    /\ fmt_counter \in CounterSamples
    /\ line_length = 0

\* let line_length = format_csv_line(&mut buffer, timestamp, counter)
FormatCall ==
    /\ fmt_pc = "call"
    /\ LET st == format_csv_line(buffer, timestamp.limbs, fmt_counter.limbs)
       IN /\ buffer' = st.buf
          /\ line_length' = st.cursor
    /\ fmt_pc' = "done"
    /\ UNCHANGED <<mainVars, fill, timestamp, fmt_counter>>

FormatNext == FormatCall

FormatSpec == FormatInit /\ [][FormatNext]_vars

\* ------------------------------------------------------------------- Next

Next ==
    \/ \E ok \in BOOLEAN : SpiNew(ok)
    \/ \E ok \in BOOLEAN : DevNew(ok)
    \/ \E ok \in BOOLEAN : Attempt(ok)
    \/ BackoffDelay
    \/ Gate
    \/ \E ok \in BOOLEAN : Reconfig(ok)
    \/ LoopTop
    \/ \E ok \in BOOLEAN : WriteRecord(ok)
    \/ \E ok \in BOOLEAN : Flush(ok)
    \/ Sleep

Spec == Init /\ [][Next]_vars

\* The executor and the loop are one task; every await completes.
FairSpec == Spec /\ WF_vars(Next)

\* ================================================================ properties

LoopPcs == {"loop_top", "loop_write", "loop_flush", "loop_sleep"}

\* main has reached the counting loop (and possibly panicked inside it)
InLoop == pc \in LoopPcs \/ halt = "overflow"

\* the executor of stage s has returned
Returned(s) == ret[s] # Unset

\* ------------------------------------------------------------------ C1
\* C1: whenever a stage's operation first succeeds on attempt k+1 after k
\* failures (0 <= k < MAX_RETRIES), retry_with_backoff has returned Some of
\* the value of that attempt, the operation has been invoked exactly k+1
\* times and the delay exactly k times -- in that state and in every later
\* one, so nothing is attempted or delayed after the success.
C1_SuccessShortCircuits ==
    \A s \in Stages :
        succ[s] > 0 =>
            /\ fails[s] = succ[s] - 1
            /\ fails[s] < MAX_RETRIES
            /\ ret[s] = Some(OpValue(s, succ[s]))
            /\ ops[s] = fails[s] + 1
            /\ delays[s] = fails[s]

\* Stage 1 failed three times, succeeded on the fourth attempt, and main has
\* since run on into the loop.
C1_Witness ==
    /\ succ[1] = MAX_RETRIES
    /\ fails[1] = MAX_RETRIES - 1
    /\ ret[1] = Some(OpValue(1, MAX_RETRIES))
    /\ pc = "loop_sleep"

\* ------------------------------------------------------------------ C2
\* C2: a stage's operation has failed MAX_RETRIES times exactly when its
\* executor has returned None; then the operation was invoked exactly
\* MAX_RETRIES times, the delay exactly MAX_RETRIES - 1 times, and main was
\* not sent to the panic handler by it.  The operation never fails more than
\* MAX_RETRIES times.
C2_ExhaustionReturnsNone ==
    \A s \in Stages :
        /\ fails[s] <= MAX_RETRIES
        /\ (fails[s] = MAX_RETRIES <=> ret[s] = None)
        /\ fails[s] = MAX_RETRIES =>
               /\ succ[s] = 0
               /\ ops[s] = MAX_RETRIES
               /\ delays[s] = MAX_RETRIES - 1
               /\ halt \notin {"spi_new", "dev_new"}
               /\ (pc = "panicked" => halt \in {"apply_config", "overflow"})

\* Stage 3 failed all four attempts and main went on to the reconfiguration.
C2_Witness ==
    /\ fails[3] = MAX_RETRIES
    /\ ret[3] = None
    /\ delays[3] = MAX_RETRIES - 1
    /\ pc = "reconfig"

\* ------------------------------------------------------------------ C3
\* C3: if the executor of stage k (1..4) returned None, the operation of no
\* later stage is ever invoked; and the operation of a stage is invoked only
\* after the executors of all earlier stages have returned Some, so the
\* attempted stages are attempted in the order 1, 2, 3, 4, 5.
C3_PipelineGating ==
    /\ \A k \in 1 .. 4 :
          ret[k] = None => \A j \in (k + 1) .. 5 : ops[j] = 0 /\ ~Returned(j)
    /\ \A s \in Stages :
          ops[s] > 0 => \A j \in 1 .. (s - 1) : IsSome(ret[j])
    /\ pc \in {"attempt", "delay"} =>
          \A j \in (stage + 1) .. 5 : ops[j] = 0

\* Stage 2 exhausted its retries and main is in the loop: stages 3..5 were
\* never attempted.
C3_Witness ==
    /\ ret[1] # None
    /\ ret[2] = None
    /\ ops[2] = MAX_RETRIES
    /\ ops[3] = 0 /\ ops[4] = 0 /\ ops[5] = 0
    /\ pc = "loop_top"

\* ------------------------------------------------------------------ C4
AllStagesOk == \A s \in Stages : IsSome(ret[s])

LoopEntry == pc = "loop_top" /\ iter = 0

\* C4: at entry to the loop the file handle is present exactly when the
\* executors of all five stages returned Some; and once apply_config has
\* succeeded, main reaches the loop whatever stages 4 and 5 (or the earlier
\* stages) returned.
C4_FileIffAllStages ==
    /\ [](LoopEntry => (IsSome(file) <=> AllStagesOk))
    /\ ((reconfigs = 1 /\ halt = "none") ~> InLoop)

\* Loop entry with the handle present, every stage having needed a retry.
C4_Witness ==
    /\ LoopEntry
    /\ IsSome(file)
    /\ \A s \in Stages : IsSome(ret[s]) /\ fails[s] > 0

\* ------------------------------------------------------------------ C5
Stages1to4Ok == \A s \in 1 .. 4 : IsSome(ret[s])

NoStorageActivity ==
    /\ pc \notin {"loop_write", "loop_flush"}
    /\ writes = 0 /\ flushes = 0
    /\ wres = "none" /\ fres = "none"

\* C5 as written: once the header stage has returned after at least one
\* failed header write, the handle is gone and the loop never writes.
C5_Original ==
    (Stages1to4Ok /\ fails[5] >= 1 /\ Returned(5)) =>
        (~IsSome(file) /\ NoStorageActivity)

\* C5 amended: if stages 1-4 succeeded and the header write failed on all
\* MAX_RETRIES attempts, the handle is discarded and no loop iteration issues
\* a record write or a flush; if the header stage returned after fewer
\* failures, the handle is kept.
C5_HeaderExhaustedDiscardsFile ==
    /\ (Stages1to4Ok /\ fails[5] = MAX_RETRIES) =>
           (ret[5] = None /\ file = None /\ NoStorageActivity)
    /\ (Returned(5) /\ fails[5] < MAX_RETRIES) => IsSome(file)

\* The header write failed four times and the loop has since run iterations.
C5_Witness ==
    /\ Stages1to4Ok
    /\ fails[5] = MAX_RETRIES
    /\ file = None
    /\ iter >= 3
    /\ pc = "loop_sleep"

\* ------------------------------------------------------------------ C6
\* the iteration's storage steps are over
IterationDone == pc = "loop_sleep"

\* C6 as written: with a handle present, the iteration flushes exactly when
\* its counter value is a multiple of 10, whatever the record write returned.
C6_Original ==
    (IterationDone /\ IsSome(file)) =>
        (fres # "none" <=> counter % 10 = 0)

\* C6 amended: with a handle present, the iteration flushes exactly when its
\* record write succeeded and its counter value is a multiple of 10.
C6_FlushIffWrittenAndMultipleOf10 ==
    /\ (IterationDone /\ IsSome(file)) =>
           (fres # "none" <=> (wres = "ok" /\ counter % 10 = 0))
    /\ pc = "loop_flush" => (wres = "ok" /\ counter % 10 = 0)

\* Iteration 10 wrote its record and flushed.
C6_Witness ==
    /\ IterationDone
    /\ iter = 10 /\ counter = 10
    /\ wres = "ok"
    /\ fres # "none"

\* ------------------------------------------------------------------ C7
\* C7 as written: every change of the counter is an increase by exactly one,
\* and no iteration observes 0 (the first observes 1).
C7_Original ==
    [][counter' # counter => (counter' = counter + 1 /\ counter' # 0)]_vars

C9_LoopKeepsFileHandle ==
    [][ /\ pc \in LoopPcs => file' = file
        /\ pc = "loop_write" => pc' \in {"loop_flush", "loop_sleep"}
        /\ pc = "loop_flush" => pc' = "loop_sleep"
        /\ (pc = "loop_top" /\ pc' # "panicked") =>
               pc' = IF IsSome(file) THEN "loop_write" ELSE "loop_sleep"
      ]_vars

\* A record write has just failed in a later iteration: the handle is there.
C9_Witness ==
    /\ pc = "loop_sleep"
    /\ iter >= 2
    /\ wres = "err"
    /\ IsSome(file)

\* ------------------------------------------------------------------ C10
\* C10 as written: once the loop is entered, whatever value the counter
\* holds, it is incremented again.
C10_Original ==
    \A c \in 0 .. (CounterModulus - 1) :
        (iter > 0 /\ counter = c) ~> (counter # c)

\* ------------------------------------------------------------------ C11
RetryPcs == {"attempt", "delay", "gate"}

\* C11: apply_config is called at most once; while it has not been called,
\* main is at stage 3 or earlier and no operation of stage 4 or 5 has run;
\* once it has been called, stage 3 is settled and main is never again inside
\* the executor of stages 1..3; and every execution that starts stage 1 does
\* call it, whatever stages 1..3 returned.
C11_ReconfigExactlyOnce ==
    /\ [](reconfigs <= 1)
    /\ [](reconfigs = 0 =>
            /\ ops[4] = 0 /\ ops[5] = 0
            /\ ~InLoop
            /\ pc \in RetryPcs => stage <= 3)
    /\ [](reconfigs = 1 =>
            /\ res[3] # Unset
            /\ pc \in RetryPcs => stage >= 4)
    /\ ((pc = "attempt" /\ stage = 1) ~> (reconfigs = 1))

\* Stage 1 returned None, the bus was reconfigured all the same, and main
\* stands at the gate of stage 4.
C11_Witness ==
    /\ ret[1] = None
    /\ reconfigs = 1
    /\ halt = "none"
    /\ pc = "gate" /\ stage = 4
    /\ ops[4] = 0

\* ------------------------------------------------------------------ C12
\* C12 as written: after a failed apply_config no stage-4 or stage-5 operation
\* and no loop iteration happens; and once bring-up has started, a failed
\* apply_config is the only way main reaches the panic handler.
C12_Original ==
    /\ halt = "apply_config" =>
           (pc = "panicked" /\ ops[4] = 0 /\ ops[5] = 0 /\ iter = 0)
    /\ (pc = "panicked" /\ ops[1] > 0) => halt = "apply_config"

\* ------------------------------------------------------------------ C13
AllFirstAttempt ==
    \A s \in Stages : ret[s] = Some(OpValue(s, 1)) /\ ops[s] = 1

Capped(n) == IF n < CountCap THEN n ELSE CountCap

\* C13: when every stage succeeded on its first attempt, the header was
\* written once and before any record; in each of iterations 1..10 the
\* record write is issued once; no flush is issued before the record write
\* of iteration 10; when that write succeeded one flush has been issued by
\* the end of iteration 10; and iteration 11 starts without another.
C13_HeaderThenTenRecordsThenFlush ==
    AllFirstAttempt =>
        /\ ops[5] = 1 /\ fails[5] = 0
        /\ (iter = 0 /\ pc = "loop_top") => writes = 0
        /\ (iter \in 1 .. 10 /\ pc = "loop_write") =>
               (wres = "none" /\ writes = Capped(iter - 1))
        /\ (iter \in 1 .. 10 /\ pc \in {"loop_flush", "loop_sleep"}) =>
               (wres # "none" /\ writes = Capped(iter))
        /\ iter < 10 => (flushes = 0 /\ pc # "loop_flush")
        /\ (iter = 10 /\ pc \in {"loop_write", "loop_flush"}) => flushes = 0
        /\ (iter = 10 /\ pc = "loop_sleep" /\ wres = "ok") =>
               (flushes = 1 /\ fres # "none")
        /\ (iter = 10 /\ pc = "loop_top") => flushes <= 1
        /\ (iter = 11 /\ pc \in LoopPcs) =>
               (flushes <= 1 /\ pc # "loop_flush" /\ fres = "none")

\* Everything succeeded at once; iteration 10 has written and flushed.
C13_Witness ==
    /\ AllFirstAttempt
    /\ iter = 10 /\ counter = 10
    /\ pc = "loop_sleep"
    /\ wres = "ok"
    /\ flushes = 1

\* ------------------------------------------------------------------ C15
\* C15: a record write is issued only at the write step of an iteration that
\* has issued neither a write nor a flush yet; a flush is issued only after
\* that iteration's successful record write and only once; the write step
\* is never taken twice in a row; and the counter moves on to the next
\* iteration only when the storage steps of the previous one are over.
C15_LoopOrdering ==
    [][ /\ (wres' # wres /\ wres' # "none") =>
               (pc = "loop_write" /\ wres = "none" /\ fres = "none")
        /\ (fres' # fres /\ fres' # "none") =>
               (pc = "loop_flush" /\ fres = "none" /\ wres = "ok")
        /\ pc = "loop_write" => (wres' # "none" /\ pc' # "loop_write")
        /\ pc = "loop_flush" => (fres' # "none" /\ pc' = "loop_sleep")
        /\ counter' # counter =>
               /\ pc = "loop_top"
               /\ wres = "none" /\ fres = "none"
               /\ wres' = "none" /\ fres' = "none"
               /\ pc' \in {"loop_write", "loop_sleep"}
      ]_vars

\* Iteration 10 wrote and flushed, and iteration 11 is about to write.
C15_Witness ==
    /\ iter = 11
    /\ pc = "loop_write"
    /\ flushes = 1
    /\ wres = "none" /\ fres = "none"

\* ------------------------------------------------------------------ C16
\* C16: whenever a record write is issued or about to be, the header stage
\* has returned Some after a successful header write; and no header write
\* is attempted once `file` is None or once the loop has started.
C16_HeaderBeforeRecords ==
    [][ /\ (writes' > 0 \/ pc' \in {"loop_write", "loop_flush"}) =>
               /\ IsSome(header_written')
               /\ succ'[5] > 0
               /\ ret'[5] = Some(OpValue(5, succ'[5]))
        /\ (InLoop \/ file = None) => ops'[5] = ops[5]
      ]_vars

\* The header needed two retries; the first record has been written.
C16_Witness ==
    /\ fails[5] = 2
    /\ IsSome(header_written)
    /\ iter = 1
    /\ pc = "loop_sleep"
    /\ wres = "ok"

\* ------------------------------------------------------------------ C18
\* what the executor of stage s must have printed, given how often its
\* operation failed
ExpectedDiag(s) ==
    [i \in 1 .. fails[s] |-> <<s, "retry", i, MAX_RETRIES>>]
    \o (IF fails[s] = MAX_RETRIES
        THEN <<(<<s, "failed_after", MAX_RETRIES>>)>>
        ELSE <<>>)

\* C18: the diagnostics printed so far are, stage by stage, one "Retry i/4"
\* line per failed attempt with i = 1, 2, .. in order, followed by one
\* "failed after" line exactly when attempt MAX_RETRIES failed; a successful
\* attempt prints nothing.
C18_DiagnosticsPerFailure ==
    diag = ExpectedDiag(1) \o ExpectedDiag(2) \o ExpectedDiag(3)
           \o ExpectedDiag(4) \o ExpectedDiag(5)

\* Stage 1 failed twice and succeeded, stage 2 failed four times.
C18_Witness ==
    /\ fails[1] = 2 /\ succ[1] = 3
    /\ fails[2] = MAX_RETRIES
    /\ Len(diag) = 7
    /\ pc = "loop_top"

\* ------------------------------------------------------------------ C19
TotalOps == ops[1] + ops[2] + ops[3] + ops[4] + ops[5]
TotalDelays == delays[1] + delays[2] + delays[3] + delays[4] + delays[5]

\* C19: bring-up never uses more than 5 * MAX_RETRIES operation invocations
\* nor more than 5 * (MAX_RETRIES - 1) delays, and every execution that
\* starts stage 1 reaches the loop or the failed-reconfiguration panic.
C19_BringUpTerminates ==
    /\ [](TotalOps <= 5 * MAX_RETRIES)
    /\ [](TotalDelays <= 5 * (MAX_RETRIES - 1))
    /\ ((pc = "attempt" /\ stage = 1) ~> (InLoop \/ halt = "apply_config"))

\* The longest bring-up: every stage succeeded on its last attempt.
C19_Witness ==
    /\ TotalOps = 5 * MAX_RETRIES
    /\ TotalDelays = 5 * (MAX_RETRIES - 1)
    /\ LoopEntry

\* ------------------------------------------------------------------ C20
\* C20: inside an executor the attempt index counts the invocations of that
\* stage's operation alone, starting at 1 and going up to MAX_RETRIES; and
\* what an executor returned is a function of where its own operation first
\* succeeded, if it did.
C20_BudgetPerStage ==
    /\ pc = "attempt" =>
           (attempt = ops[stage] + 1 /\ attempt \in 1 .. MAX_RETRIES)
    /\ pc = "delay" =>
           (attempt = ops[stage] /\ attempt \in 1 .. (MAX_RETRIES - 1))
    /\ \A s \in Stages :
          Returned(s) =>
              /\ ret[s] = IF succ[s] > 0 THEN Some(OpValue(s, succ[s]))
                                         ELSE None
              /\ ops[s] = IF succ[s] > 0 THEN succ[s] ELSE MAX_RETRIES

\* Stage 1 used all four attempts, and stage 2 is on its fourth too.
C20_Witness ==
    /\ ops[1] = MAX_RETRIES /\ IsSome(ret[1])
    /\ pc = "attempt" /\ stage = 2
    /\ attempt = MAX_RETRIES

\* ------------------------------------------------------------------ C14
RECURSIVE AsBytes(_)
\* hand-written digits as ASCII bytes
AsBytes(digits) ==
    IF digits = <<>> THEN <<>>
    ELSE <<48 + Head(digits)>> \o AsBytes(Tail(digits))

\* decimal(timestamp) ++ ",count," ++ decimal(counter) ++ "\n"
FullLine ==
    AsBytes(timestamp.text) \o <<44, 99, 111, 117, 110, 116, 44>>
    \o AsBytes(fmt_counter.text) \o <<10>>

Min(a, b) == IF a < b THEN a ELSE b

\* C14: after the call the buffer has its old length, begins with the first
\* min(len, L) bytes of the full line and is untouched behind them; the
\* value returned is min(len, L); L never exceeds 64, so a 64-byte buffer
\* receives the whole line; and (1000, 42) gives "1000,count,42\n", 14.
C14_FormatCsvLine ==
    fmt_pc = "done" =>
        LET L == Len(FullLine)
            n == Len(buffer)
            m == Min(n, L)
        IN /\ n \in BufferLens
           /\ line_length = m
           /\ \A j \in 1 .. m : buffer[j] = FullLine[j]
           /\ \A j \in (m + 1) .. n : buffer[j] = fill
           /\ L <= 64
           /\ n = 64 => line_length = L
           /\ (timestamp.limbs = <<0, 0, 1000>> /\ fmt_counter.limbs = <<0, 42>>
               /\ n >= 14) =>
                  /\ line_length = 14
                  /\ SubSeq(buffer, 1, 14) =
                        <<49, 48, 48, 48, 44, 99, 111, 117, 110, 116, 44, 52,
                          50, 10>>

\* The longest line (u64::MAX, u32::MAX) was cut to a 15-byte buffer.
C14_Witness ==
    /\ fmt_pc = "done"
    /\ timestamp.limbs = <<18, 446744073, 709551615>>
    /\ fmt_counter.limbs = <<4, 294967295>>
    /\ Len(buffer) = 15
    /\ line_length = 15
    /\ buffer[15] = 53

====
